---- MODULE Spec2Model ----
(***************************************************************************)
(* Model of the semantic-version constraint engine of goctor (package      *)
(* semver): version and constraint parsing, the Compare ordering and the   *)
(* satisfaction evaluator.  A Go string is a sequence of one-character     *)
(* strings; strings are ordered bytewise, as Go's < on strings does.       *)
(***************************************************************************)
EXTENDS Integers, Sequences, FiniteSets, TLC

(***************************************************************************)
(* Bounds of the model.                                                    *)
(***************************************************************************)
MaxNum == 1
MaxList == 2
MaxStrLen == 4

(***************************************************************************)
(* Characters and Go string comparison.                                    *)
(***************************************************************************)
DigitSeq == <<"0", "1", "2", "3", "4", "5", "6", "7", "8", "9">>
UpperSeq == <<"A", "B", "C", "D", "E", "F", "G", "H", "I", "J", "K", "L", "M",
              "N", "O", "P", "Q", "R", "S", "T", "U", "V", "W", "X", "Y", "Z">>
LowerSeq == <<"a", "b", "c", "d", "e", "f", "g", "h", "i", "j", "k", "l", "m",
              "n", "o", "p", "q", "r", "s", "t", "u", "v", "w", "x", "y", "z">>

Range(s) == {s[i] : i \in 1..Len(s)}

IndexOf(s, ch) == CHOOSE i \in 1..Len(s) : s[i] = ch

Digit == Range(DigitSeq)

\* the character class [0-9A-Za-z\-\.] of versionRegex
PreClass == Digit \cup Range(UpperSeq) \cup Range(LowerSeq) \cup {"-", "."}

\* the byte value of a character (ASCII)
ByteOf(ch) ==
    CASE ch \in Digit -> 47 + IndexOf(DigitSeq, ch)
      [] ch \in Range(UpperSeq) -> 64 + IndexOf(UpperSeq, ch)
      [] ch \in Range(LowerSeq) -> 96 + IndexOf(LowerSeq, ch)
      [] ch = "\n" -> 10
      [] ch = " " -> 32
      [] ch = "!" -> 33
      [] ch = "+" -> 43
      [] ch = "-" -> 45
      [] ch = "." -> 46
      [] ch = "<" -> 60
      [] ch = "=" -> 61
      [] ch = ">" -> 62
      [] ch = "^" -> 94
      [] ch = "~" -> 126

\* Go's s < t on strings: bytewise lexicographic, a proper prefix is smaller
RECURSIVE StrLess(_, _)
StrLess(s, t) ==
    IF t = <<>> THEN FALSE
    ELSE IF s = <<>> THEN TRUE
    ELSE IF ByteOf(Head(s)) # ByteOf(Head(t)) THEN ByteOf(Head(s)) < ByteOf(Head(t))
    ELSE StrLess(Tail(s), Tail(t))

(***************************************************************************)
(* type Version, type Operator, type Constraint                            *)
(***************************************************************************)
OpEqual == 0
OpGreater == 1
OpGreaterEqual == 2
OpLess == 3
OpLessEqual == 4
OpTilde == 5
OpCaret == 6
OpNotEqual == 7

Operator == {OpEqual, OpGreater, OpGreaterEqual, OpLess, OpLessEqual,
             OpTilde, OpCaret, OpNotEqual}

\* Version{}: the zero value
ZeroVersion == [Major |-> 0, Minor |-> 0, Patch |-> 0, Prerelease |-> <<>>, Build |-> <<>>]

\* Constraint{}: the zero value
ZeroConstraint == [Operator |-> OpEqual, Version |-> ZeroVersion]

(***************************************************************************)
(* Version.Compare and comparePrerelease                                   *)
(***************************************************************************)
\* comparePrerelease without its first test: two releases are no longer equal
comparePrerelease_NoBothEmpty(pre1, pre2) ==
    IF pre1 = <<>> THEN 1
    ELSE IF pre2 = <<>> THEN -1
    ELSE IF StrLess(pre1, pre2) THEN -1
    ELSE IF StrLess(pre2, pre1) THEN 1
    ELSE 0

comparePrerelease(pre1, pre2) ==
    IF pre1 = <<>> /\ pre2 = <<>> THEN 0
    ELSE IF pre1 = <<>> THEN 1
    ELSE IF pre2 = <<>> THEN -1
    ELSE IF StrLess(pre1, pre2) THEN -1
    ELSE IF StrLess(pre2, pre1) THEN 1
    ELSE 0

\* Compare that forgets the patch field
Compare_NoPatch(v, other) ==
    IF v.Major # other.Major THEN (IF v.Major < other.Major THEN -1 ELSE 1)
    ELSE IF v.Minor # other.Minor THEN (IF v.Minor < other.Minor THEN -1 ELSE 1)
    ELSE comparePrerelease(v.Prerelease, other.Prerelease)

\* Compare that breaks a tie on the build metadata
Compare_BuildTieBreak(v, other) ==
    IF v.Major # other.Major THEN (IF v.Major < other.Major THEN -1 ELSE 1)
    ELSE IF v.Minor # other.Minor THEN (IF v.Minor < other.Minor THEN -1 ELSE 1)
    ELSE IF v.Patch # other.Patch THEN (IF v.Patch < other.Patch THEN -1 ELSE 1)
    ELSE IF comparePrerelease(v.Prerelease, other.Prerelease) # 0
         THEN comparePrerelease(v.Prerelease, other.Prerelease)
    ELSE comparePrerelease(v.Build, other.Build)

Compare(v, other) ==
    IF v.Major # other.Major THEN (IF v.Major < other.Major THEN -1 ELSE 1)
    ELSE IF v.Minor # other.Minor THEN (IF v.Minor < other.Minor THEN -1 ELSE 1)
    ELSE IF v.Patch # other.Patch THEN (IF v.Patch < other.Patch THEN -1 ELSE 1)
    ELSE comparePrerelease(v.Prerelease, other.Prerelease)

(***************************************************************************)
(* Constraint.IsSatisfiedBy, tildeConstraint, caretConstraint, SatisfiesAll *)
(***************************************************************************)
\* tildeConstraint without the minor test (the range >=B <(B.major+1).0.0)
tildeConstraint_AnyMinor(c, version) ==
    IF version.Major # c.Version.Major THEN FALSE
    ELSE IF version.Minor > c.Version.Minor THEN TRUE
    ELSE IF version.Minor = c.Version.Minor THEN version.Patch >= c.Version.Patch
    ELSE FALSE

\* tildeConstraint that takes its lower end from Compare, as the range
\* >=B of its comment would
tildeConstraint_ByCompare(c, version) ==
    IF version.Major # c.Version.Major THEN FALSE
    ELSE IF version.Minor # c.Version.Minor THEN FALSE
    ELSE Compare(version, c.Version) >= 0

tildeConstraint(c, version) ==
    IF version.Major # c.Version.Major THEN FALSE
    ELSE IF version.Minor # c.Version.Minor THEN FALSE
    ELSE version.Patch >= c.Version.Patch

\* caretConstraint that treats a 0.0.x bound like a 0.x.y bound
caretConstraint_NoZeroZero(c, version) ==
    IF version.Major # c.Version.Major THEN FALSE
    ELSE IF c.Version.Major = 0 THEN
        IF version.Minor # c.Version.Minor THEN FALSE
        ELSE version.Patch >= c.Version.Patch
    ELSE IF version.Minor > c.Version.Minor THEN TRUE
    ELSE IF version.Minor = c.Version.Minor THEN version.Patch >= c.Version.Patch
    ELSE FALSE

caretConstraint(c, version) ==
    IF version.Major # c.Version.Major THEN FALSE
    ELSE IF c.Version.Major = 0 THEN
        IF version.Minor # c.Version.Minor THEN FALSE
        ELSE IF c.Version.Minor = 0 THEN version.Patch = c.Version.Patch
        ELSE version.Patch >= c.Version.Patch
    ELSE IF version.Minor > c.Version.Minor THEN TRUE
    ELSE IF version.Minor = c.Version.Minor THEN version.Patch >= c.Version.Patch
    ELSE FALSE

\* IsSatisfiedBy that compares the bound with the candidate, not the candidate
\* with the bound
IsSatisfiedBy_Swapped(c, version) ==
    LET comparison == Compare(c.Version, version) IN
    CASE c.Operator = OpEqual -> comparison = 0
      [] c.Operator = OpGreater -> comparison > 0
      [] c.Operator = OpGreaterEqual -> comparison >= 0
      [] c.Operator = OpLess -> comparison < 0
      [] c.Operator = OpLessEqual -> comparison <= 0
      [] c.Operator = OpNotEqual -> comparison # 0
      [] c.Operator = OpTilde -> tildeConstraint(c, version)
      [] c.Operator = OpCaret -> caretConstraint(c, version)
      [] OTHER -> FALSE

IsSatisfiedBy(c, version) ==
    LET comparison == Compare(version, c.Version) IN
    CASE c.Operator = OpEqual -> comparison = 0
      [] c.Operator = OpGreater -> comparison > 0
      [] c.Operator = OpGreaterEqual -> comparison >= 0
      [] c.Operator = OpLess -> comparison < 0
      [] c.Operator = OpLessEqual -> comparison <= 0
      [] c.Operator = OpNotEqual -> comparison # 0
      [] c.Operator = OpTilde -> tildeConstraint(c, version)
      [] c.Operator = OpCaret -> caretConstraint(c, version)
      [] OTHER -> FALSE

\* SatisfiesAll that returns from inside the loop on the first constraint
SatisfiesAll_FirstOnly(version, constraints) ==
    IF constraints = <<>> THEN TRUE
    ELSE IsSatisfiedBy(Head(constraints), version)

\* the range loop, returning at the first constraint that is not satisfied
RECURSIVE SatisfiesAll(_, _)
SatisfiesAll(version, constraints) ==
    IF constraints = <<>> THEN TRUE
    ELSE IF ~IsSatisfiedBy(Head(constraints), version) THEN FALSE
    ELSE SatisfiesAll(version, Tail(constraints))

(***************************************************************************)
(* versionRegex, strconv.Atoi and ParseVersion.  An error value is its     *)
(* message: a sequence holding the literal text of the format string       *)
(* followed by the characters of the formatted argument; <<>> is nil.      *)
(***************************************************************************)
NoError == <<>>

\* the first position at or after i whose character lies outside class
RECURSIVE SpanEnd(_, _, _)
SpanEnd(s, i, class) ==
    IF i <= Len(s) /\ s[i] \in class THEN SpanEnd(s, i + 1, class) ELSE i

\* an optional group (?:<lead>(<class>+))? tried at position i: the position
\* after it and the captured text, or i and "" when the group does not match
OptGroup(s, i, lead, class) ==
    LET e == SpanEnd(s, i + 1, class) IN
    IF i <= Len(s) /\ s[i] = lead /\ e > i + 1
    THEN [end |-> e, text |-> SubSeq(s, i + 1, e - 1)]
    ELSE [end |-> i, text |-> <<>>]

\* versionRegex.FindStringSubmatch: every quantifier is greedy and the
\* character after each group lies outside the group's class, so the greedy
\* match is the only candidate
versionRegex(s) ==
    LET p0 == IF Len(s) >= 1 /\ s[1] = "v" THEN 2 ELSE 1
        p1 == SpanEnd(s, p0, Digit)
        g2 == OptGroup(s, p1, ".", Digit)
        g3 == OptGroup(s, g2.end, ".", Digit)
        g4 == OptGroup(s, g3.end, "-", PreClass)
        g5 == OptGroup(s, g4.end, "+", PreClass)
    IN  IF p1 > p0 /\ g5.end = Len(s) + 1
        THEN [ok |-> TRUE, m1 |-> SubSeq(s, p0, p1 - 1), m2 |-> g2.text,
              m3 |-> g3.text, m4 |-> g4.text, m5 |-> g5.text]
        ELSE [ok |-> FALSE, m1 |-> <<>>, m2 |-> <<>>, m3 |-> <<>>, m4 |-> <<>>,
              m5 |-> <<>>]

RECURSIVE StripZeros(_)
StripZeros(s) == IF s # <<>> /\ Head(s) = "0" THEN StripZeros(Tail(s)) ELSE s

\* the decimal digits of the largest int (64 bit)
MaxIntDigits == <<"9", "2", "2", "3", "3", "7", "2", "0", "3", "6", "8", "5", "4",
                  "7", "7", "5", "8", "0", "7">>

\* strconv.Atoi on a string of digits fails only when the value is out of range
AtoiInRange(s) ==
    LET d == StripZeros(s) IN
    \/ Len(d) < Len(MaxIntDigits)
    \/ Len(d) = Len(MaxIntDigits) /\ ~StrLess(MaxIntDigits, d)

RECURSIVE AtoiValue(_)
AtoiValue(s) ==
    IF s = <<>> THEN 0
    ELSE AtoiValue(SubSeq(s, 1, Len(s) - 1)) * 10 + (IndexOf(DigitSeq, s[Len(s)]) - 1)

\* ParseVersion that converts the minor and patch groups without testing that
\* they are present: strconv.Atoi fails on the empty string
ParseVersion_NoPresenceTest(versionStr) ==
    IF versionStr = <<>>
    THEN [version |-> ZeroVersion, err |-> <<"version string cannot be empty">>]
    ELSE LET matches == versionRegex(versionStr) IN
    IF ~matches.ok
    THEN [version |-> ZeroVersion, err |-> <<"invalid version format: ">> \o versionStr]
    ELSE IF ~AtoiInRange(matches.m1)
    THEN [version |-> ZeroVersion, err |-> <<"invalid major version: ">> \o matches.m1]
    ELSE IF matches.m2 = <<>> \/ ~AtoiInRange(matches.m2)
    THEN [version |-> ZeroVersion, err |-> <<"invalid minor version: ">> \o matches.m2]
    ELSE IF matches.m3 = <<>> \/ ~AtoiInRange(matches.m3)
    THEN [version |-> ZeroVersion, err |-> <<"invalid patch version: ">> \o matches.m3]
    ELSE [version |-> [Major |-> AtoiValue(matches.m1),
                       Minor |-> AtoiValue(matches.m2),
                       Patch |-> AtoiValue(matches.m3),
                       Prerelease |-> matches.m4,
                       Build |-> matches.m5],
          err |-> NoError]

ParseVersion(versionStr) ==
    IF versionStr = <<>>
    THEN [version |-> ZeroVersion, err |-> <<"version string cannot be empty">>]
    ELSE LET matches == versionRegex(versionStr) IN
    IF ~matches.ok
    THEN [version |-> ZeroVersion, err |-> <<"invalid version format: ">> \o versionStr]
    ELSE IF ~AtoiInRange(matches.m1)
    THEN [version |-> ZeroVersion, err |-> <<"invalid major version: ">> \o matches.m1]
    ELSE IF matches.m2 # <<>> /\ ~AtoiInRange(matches.m2)
    THEN [version |-> ZeroVersion, err |-> <<"invalid minor version: ">> \o matches.m2]
    ELSE IF matches.m3 # <<>> /\ ~AtoiInRange(matches.m3)
    THEN [version |-> ZeroVersion, err |-> <<"invalid patch version: ">> \o matches.m3]
    ELSE [version |-> [Major |-> AtoiValue(matches.m1),
                       Minor |-> IF matches.m2 # <<>> THEN AtoiValue(matches.m2) ELSE 0,
                       Patch |-> IF matches.m3 # <<>> THEN AtoiValue(matches.m3) ELSE 0,
                       Prerelease |-> matches.m4,
                       Build |-> matches.m5],
          err |-> NoError]

(***************************************************************************)
(* constraintRegex and ParseConstraint                                     *)
(***************************************************************************)
\* the operator group with its one-character alternatives written first
OperatorTokens_ShortFirst == << <<">">>, <<"<">>, <<">", "=">>, <<"<", "=">>, <<"~">>, <<"^">>,
                                <<"!", "=">> >>

\* the alternatives of the operator group, in the order the regexp tries them
OperatorTokens == << <<">", "=">>, <<"<", "=">>, <<">">>, <<"<">>, <<"~">>, <<"^">>,
                     <<"!", "=">> >>

HasPrefix(s, p) == Len(s) >= Len(p) /\ SubSeq(s, 1, Len(p)) = p

\* (.+)$ : one or more characters other than newline, up to the end of the text
DotPlus(s) == s # <<>> /\ \A i \in 1..Len(s) : s[i] # "\n"

\* constraintRegex.FindStringSubmatch: leftmost-first, so the first operator
\* alternative that leaves a non-empty remainder wins, and no operator at all
\* is tried last
constraintRegex(s) ==
    LET fits == {k \in 1..Len(OperatorTokens) :
                    /\ HasPrefix(s, OperatorTokens[k])
                    /\ DotPlus(SubSeq(s, Len(OperatorTokens[k]) + 1, Len(s)))}
    IN  IF fits # {}
        THEN LET k == CHOOSE j \in fits : \A i \in fits : j <= i IN
             [ok |-> TRUE, m1 |-> OperatorTokens[k],
              m2 |-> SubSeq(s, Len(OperatorTokens[k]) + 1, Len(s))]
        ELSE IF DotPlus(s) THEN [ok |-> TRUE, m1 |-> <<>>, m2 |-> s]
        ELSE [ok |-> FALSE, m1 |-> <<>>, m2 |-> <<>>]

\* ParseConstraint that returns the operator it recognized together with the
\* bare error of ParseVersion
ParseConstraint_BareError(constraintStr) ==
    IF constraintStr = <<>>
    THEN [constraint |-> ZeroConstraint, err |-> <<"constraint string cannot be empty">>]
    ELSE LET matches == constraintRegex(constraintStr) IN
    IF ~matches.ok
    THEN [constraint |-> ZeroConstraint,
          err |-> <<"invalid constraint format: ">> \o constraintStr]
    ELSE LET operatorStr == matches.m1
             versionStr == matches.m2
             operator == CASE operatorStr = <<">", "=">> -> OpGreaterEqual
                           [] operatorStr = <<">">> -> OpGreater
                           [] operatorStr = <<"<", "=">> -> OpLessEqual
                           [] operatorStr = <<"<">> -> OpLess
                           [] operatorStr = <<"~">> -> OpTilde
                           [] operatorStr = <<"^">> -> OpCaret
                           [] operatorStr = <<"!", "=">> -> OpNotEqual
                           [] OTHER -> OpEqual
             parsed == ParseVersion(versionStr)
         IN
    [constraint |-> [Operator |-> operator, Version |-> parsed.version],
     err |-> parsed.err]

ParseConstraint(constraintStr) ==
    IF constraintStr = <<>>
    THEN [constraint |-> ZeroConstraint, err |-> <<"constraint string cannot be empty">>]
    ELSE LET matches == constraintRegex(constraintStr) IN
    IF ~matches.ok
    THEN [constraint |-> ZeroConstraint,
          err |-> <<"invalid constraint format: ">> \o constraintStr]
    ELSE LET operatorStr == matches.m1
             versionStr == matches.m2
             known == operatorStr \in {<<">", "=">>, <<">">>, <<"<", "=">>, <<"<">>, <<"~">>,
                                       <<"^">>, <<"!", "=">>, <<>>, <<"=">>}
             operator == CASE operatorStr = <<">", "=">> -> OpGreaterEqual
                           [] operatorStr = <<">">> -> OpGreater
                           [] operatorStr = <<"<", "=">> -> OpLessEqual
                           [] operatorStr = <<"<">> -> OpLess
                           [] operatorStr = <<"~">> -> OpTilde
                           [] operatorStr = <<"^">> -> OpCaret
                           [] operatorStr = <<"!", "=">> -> OpNotEqual
                           [] OTHER -> OpEqual
             parsed == ParseVersion(versionStr)
         IN
    IF ~known
    THEN [constraint |-> ZeroConstraint, err |-> <<"unknown operator: ">> \o operatorStr]
    ELSE IF parsed.err # NoError
    THEN [constraint |-> ZeroConstraint,
          err |-> <<"invalid version in constraint: ">> \o parsed.err]
    ELSE [constraint |-> [Operator |-> operator, Version |-> parsed.version],
          err |-> NoError]

(***************************************************************************)
(* strings.Fields and ParseConstraints                                     *)
(***************************************************************************)
\* the white space strings.Fields splits on (ASCII)
WhiteSpace == {" ", "\t", "\n", "\r"}

\* the first position at or after i that holds white space
RECURSIVE FieldEnd(_, _)
FieldEnd(s, i) ==
    IF i <= Len(s) /\ s[i] \notin WhiteSpace THEN FieldEnd(s, i + 1) ELSE i

\* strings.Fields: the maximal runs of characters that are not white space
RECURSIVE Fields(_)
Fields(s) ==
    IF s = <<>> THEN <<>>
    ELSE IF Head(s) \in WhiteSpace THEN Fields(Tail(s))
    ELSE LET e == FieldEnd(s, 1) IN
         <<SubSeq(s, 1, e - 1)>> \o Fields(SubSeq(s, e, Len(s)))

\* the loop of ParseConstraints leaving out the parts that do not parse
RECURSIVE parseParts_SkipFailed(_, _, _)
parseParts_SkipFailed(parts, i, constraints) ==
    IF i > Len(parts) THEN [constraints |-> constraints, err |-> NoError]
    ELSE LET parsed == ParseConstraint(parts[i]) IN
         IF parsed.err # NoError
         THEN parseParts_SkipFailed(parts, i + 1, constraints)
         ELSE parseParts_SkipFailed(parts, i + 1, Append(constraints, parsed.constraint))

\* the loop of ParseConstraints over parts[i..], with the constraints parsed so far
RECURSIVE parseParts(_, _, _)
parseParts(parts, i, constraints) ==
    IF i > Len(parts) THEN [constraints |-> constraints, err |-> NoError]
    ELSE LET parsed == ParseConstraint(parts[i]) IN
         IF parsed.err # NoError
         THEN [constraints |-> <<>>,
               err |-> <<"failed to parse constraint '">> \o parts[i] \o <<"': ">>
                       \o parsed.err]
         ELSE parseParts(parts, i + 1, Append(constraints, parsed.constraint))

\* the result holds no list (nil) when err is an error
ParseConstraints(constraintStr) ==
    IF constraintStr = <<>>
    THEN [constraints |-> <<>>, err |-> <<"constraint string cannot be empty">>]
    ELSE parseParts(Fields(constraintStr), 1, <<>>)

(***************************************************************************)
(* Version.String, Operator.String, Constraint.String                      *)
(***************************************************************************)
\* fmt.Sprintf("%d", n) for n >= 0
RECURSIVE Itoa(_)
Itoa(n) ==
    IF n < 10 THEN <<DigitSeq[n + 1]>>
    ELSE Itoa(n \div 10) \o <<DigitSeq[(n % 10) + 1]>>

\* Version.String that leaves out the "-" before the prerelease
VersionString_NoDash(v) ==
    Itoa(v.Major) \o <<".">> \o Itoa(v.Minor) \o <<".">> \o Itoa(v.Patch)
        \o v.Prerelease
        \o (IF v.Build # <<>> THEN <<"+">> \o v.Build ELSE <<>>)

VersionString(v) ==
    Itoa(v.Major) \o <<".">> \o Itoa(v.Minor) \o <<".">> \o Itoa(v.Patch)
        \o (IF v.Prerelease # <<>> THEN <<"-">> \o v.Prerelease ELSE <<>>)
        \o (IF v.Build # <<>> THEN <<"+">> \o v.Build ELSE <<>>)

OperatorString(op) ==
    CASE op = OpEqual -> <<"=">>
      [] op = OpGreater -> <<">">>
      [] op = OpGreaterEqual -> <<">", "=">>
      [] op = OpLess -> <<"<">>
      [] op = OpLessEqual -> <<"<", "=">>
      [] op = OpTilde -> <<"~">>
      [] op = OpCaret -> <<"^">>
      [] op = OpNotEqual -> <<"!", "=">>
      [] OTHER -> <<"u", "n", "k", "n", "o", "w", "n">>

\* Constraint.String without the special case for OpEqual
ConstraintString_AlwaysToken(c) ==
    OperatorString(c.Operator) \o VersionString(c.Version)

ConstraintString(c) ==
    IF c.Operator = OpEqual THEN VersionString(c.Version)
    ELSE OperatorString(c.Operator) \o VersionString(c.Version)

(***************************************************************************)
(* The inputs the engine is called with.                                   *)
(***************************************************************************)
Nums == 0..MaxNum

\* prerelease strings: absent, a prefix of another, and unequal first bytes
Prereleases == {<<>>, <<"a">>, <<"a", "b">>, <<"b">>}

Builds == {<<>>, <<"x">>}

Versions == [Major : Nums, Minor : Nums, Patch : Nums,
             Prerelease : Prereleases, Build : Builds]

Constraints == [Operator : Operator, Version : Versions]

\* versions compared three at a time
OrderVersions == {v \in Versions : v.Build = <<>>}

\* constraint lists and their candidates: releases of major version 1
ListBounds == {v \in Versions : /\ v.Major = 1 /\ v.Patch = 0
                                /\ v.Prerelease = <<>> /\ v.Build = <<>>}
ListConstraints == [Operator : Operator, Version : ListBounds]
ListCandidates == {v \in Versions : /\ v.Major = 1
                                    /\ v.Prerelease = <<>> /\ v.Build = <<>>}
ConstraintLists == UNION {[1..n -> ListConstraints] : n \in 0..MaxList}

\* the characters of version strings
Alphabet == {"0", "1", ".", "-", "+", "v", "a"}
Strings == UNION {[1..n -> Alphabet] : n \in 0..MaxStrLen}

\* what a constraint string starts with: an operator token, nothing, "=" or "=>"
Prefixes == Range(OperatorTokens) \cup {<<>>, <<"=">>, <<"=", ">">>}
ConstraintStrings == {p \o s : p \in Prefixes, s \in Strings}

\* the characters of constraint lists
ListAlphabet == {" ", "\t", "1", ".", ">", "=", "a"}
ListStrings == UNION {[1..n -> ListAlphabet] : n \in 0..MaxStrLen}

\* the versions and constraints that are rendered: those above and every
\* version ParseVersion returns
ParsedVersions == {ParseVersion(s).version : s \in {t \in Strings : ParseVersion(t).err = NoError}}
RenderVersions == Versions \cup ParsedVersions
RenderConstraints == [Operator : Operator, Version : RenderVersions]

(***************************************************************************)
(* State: one call of the engine.  fn is the function called, args its     *)
(* arguments, ret its result once pc = "done".  With several callers at    *)
(* once each of these is a function of the caller, and frames holds the    *)
(* local variables of the calls in flight.                                 *)
(***************************************************************************)
VARIABLES pc, fn, args, ret, frames

vars == <<pc, fn, args, ret, frames>>

Pending(f, a) == pc = "call" /\ fn = f /\ args = a /\ ret = "none" /\ frames = <<>>

Return(r) == pc' = "done" /\ ret' = r /\ UNCHANGED <<fn, args, frames>>

Done(f) == pc = "done" /\ fn = f

\* v.Compare(other)
CallCompare ==
    /\ pc = "call" /\ fn = "Compare"
    /\ Return(Compare(args.v, args.other))

\* Compare on each pair of three versions a, b, c
CallCompareChain ==
    /\ pc = "call" /\ fn = "CompareChain"
    /\ Return([ab |-> Compare(args.a, args.b), ba |-> Compare(args.b, args.a),
               bc |-> Compare(args.b, args.c), ac |-> Compare(args.a, args.c)])

\* c.IsSatisfiedBy(version)
CallIsSatisfiedBy ==
    /\ pc = "call" /\ fn = "IsSatisfiedBy"
    /\ Return(IsSatisfiedBy(args.c, args.version))

\* SatisfiesAll(version, constraints)
CallSatisfiesAll ==
    /\ pc = "call" /\ fn = "SatisfiesAll"
    /\ Return(SatisfiesAll(args.version, args.constraints))

\* ParseVersion(versionStr)
CallParseVersion ==
    /\ pc = "call" /\ fn = "ParseVersion"
    /\ Return(ParseVersion(args.versionStr))

\* ParseConstraint(constraintStr)
CallParseConstraint ==
    /\ pc = "call" /\ fn = "ParseConstraint"
    /\ Return(ParseConstraint(args.constraintStr))

\* ParseConstraints(constraintStr)
CallParseConstraints ==
    /\ pc = "call" /\ fn = "ParseConstraints"
    /\ Return(ParseConstraints(args.constraintStr))

\* v.String()
CallVersionString ==
    /\ pc = "call" /\ fn = "Version.String"
    /\ Return(VersionString(args.v))

\* c.String()
CallConstraintString ==
    /\ pc = "call" /\ fn = "Constraint.String"
    /\ Return(ConstraintString(args.c))

\* Ordering: Compare on each pair of three versions
InitOrder ==
    \E a \in OrderVersions, b \in OrderVersions, c \in OrderVersions :
        Pending("CompareChain", [a |-> a, b |-> b, c |-> c])

NextOrder == CallCompareChain

SpecOrder == InitOrder /\ [][NextOrder]_vars

\* Evaluation: two versions compared, one constraint, a list of constraints
InitEvaluate ==
    \/ \E v \in Versions, other \in Versions :
          Pending("Compare", [v |-> v, other |-> other])
    \/ \E c \in Constraints, version \in Versions :
          Pending("IsSatisfiedBy", [c |-> c, version |-> version])
    \/ \E version \in ListCandidates, constraints \in ConstraintLists :
          Pending("SatisfiesAll", [version |-> version, constraints |-> constraints])

NextEvaluate == CallCompare \/ CallIsSatisfiedBy \/ CallSatisfiesAll

SpecEvaluate == InitEvaluate /\ [][NextEvaluate]_vars

\* Parsing: version strings and constraint strings
InitParse ==
    \/ \E versionStr \in Strings : Pending("ParseVersion", [versionStr |-> versionStr])
    \/ \E constraintStr \in ConstraintStrings :
          Pending("ParseConstraint", [constraintStr |-> constraintStr])
    \/ \E constraintStr \in ListStrings :
          Pending("ParseConstraints", [constraintStr |-> constraintStr])

NextParse == CallParseVersion \/ CallParseConstraint \/ CallParseConstraints

SpecParse == InitParse /\ [][NextParse]_vars

\* Rendering: versions and constraints turned into strings
InitRender ==
    \/ \E v \in RenderVersions : Pending("Version.String", [v |-> v])
    \/ \E c \in RenderConstraints : Pending("Constraint.String", [c |-> c])

NextRender == CallVersionString \/ CallConstraintString

SpecRender == InitRender /\ [][NextRender]_vars

(***************************************************************************)
(* The checker: CheckStatus, CheckResult and Checker.CheckTool.  What the  *)
(* machine answers is the environment env of a check: lookup is the        *)
(* outcome of `command -v`, run the outcome of the version command, and    *)
(* compiles, matched, matches and names what the tool's regular expression *)
(* gives on the output of that command (matches[1] is the whole match, and *)
(* matched is false for the nil of FindStringSubmatch).                    *)
(***************************************************************************)
StatusUnknown == 0
StatusOK == 1
StatusMissing == 2
StatusOutdated == 3
StatusError == 4
StatusNotFound == 5

CheckStatus == {StatusUnknown, StatusOK, StatusMissing, StatusOutdated, StatusError,
                StatusNotFound}

\* strings.TrimSpace
RECURSIVE TrimSpace(_)
TrimSpace(s) ==
    IF s = <<>> THEN s
    ELSE IF Head(s) \in WhiteSpace THEN TrimSpace(Tail(s))
    ELSE IF s[Len(s)] \in WhiteSpace THEN TrimSpace(SubSeq(s, 1, Len(s) - 1))
    ELSE s

\* strings.ToLower
ToLower(s) ==
    [i \in 1..Len(s) |->
        IF s[i] \in Range(UpperSeq) THEN LowerSeq[IndexOf(UpperSeq, s[i])] ELSE s[i]]

getToolPath(env) ==
    IF env.lookup = "timeout"
    THEN [path |-> <<>>, available |-> FALSE, err |-> <<"context deadline exceeded">>]
    ELSE IF env.lookup = "missing"
    THEN [path |-> <<>>, available |-> FALSE, err |-> NoError]
    ELSE [path |-> TrimSpace(env.path), available |-> TRUE, err |-> NoError]

runCommand(env) ==
    IF env.run = "timeout" THEN <<"command timed out">>
    ELSE IF env.run = "failed" THEN <<"command failed: ", "exit status 1">>
    ELSE NoError

versionGroupNames == {<<"v", "e", "r">>, <<"v", "e", "r", "s", "i", "o", "n">>, <<"v">>}

\* the capture groups the loop of parseVersionFromOutput returns from
NamedCaptures(env) ==
    {i \in 1..Len(env.names) :
        /\ env.names[i] # <<>> /\ i <= Len(env.matches)
        /\ ToLower(env.names[i]) \in versionGroupNames
        /\ env.matches[i] # <<>>}

Least(S) == CHOOSE i \in S : \A j \in S : i <= j

parseVersionFromOutput(env, regexPattern) ==
    IF regexPattern = <<>>
    THEN [version |-> <<>>, err |-> <<"empty regex pattern">>]
    ELSE IF ~env.compiles
    THEN [version |-> <<>>, err |-> <<"invalid regex: ", "error parsing regexp">>]
    ELSE IF ~env.matched
    THEN [version |-> <<>>, err |-> <<"no version found in output">>]
    ELSE IF NamedCaptures(env) # {}
    THEN [version |-> TrimSpace(env.matches[Least(NamedCaptures(env))]), err |-> NoError]
    ELSE IF Len(env.matches) > 1 /\ env.matches[2] # <<>>
    THEN [version |-> TrimSpace(env.matches[2]), err |-> NoError]
    ELSE [version |-> <<>>, err |-> <<"no version captured by regex">>]

extractVersion(tool, env) ==
    IF Len(tool.Command) = 0
    THEN [version |-> <<>>, err |-> <<"no check command specified">>]
    ELSE IF runCommand(env) # NoError
    THEN [version |-> <<>>,
          err |-> <<"failed to run version command: ">> \o runCommand(env)]
    ELSE LET parsed == parseVersionFromOutput(env, tool.Regex) IN
         IF parsed.err # NoError
         THEN [version |-> <<>>, err |-> <<"failed to parse version: ">> \o parsed.err]
         ELSE [version |-> parsed.version, err |-> NoError]

\* the one element of a set of one element: The({e(x) : x \in {v}}) is e(x)
\* with the local x assigned the value v once
The(S) == CHOOSE x \in S : TRUE

validateVersion(actualVersion, requiredVersion) ==
    IF actualVersion = <<>> THEN <<"no actual version to validate">>
    ELSE IF requiredVersion = <<>> THEN <<"no required version specified">>
    ELSE The({
        IF actual.err # NoError
        THEN <<"invalid actual version format: ">> \o actual.err
        ELSE IF constraint.err # NoError
        THEN <<"invalid required version constraint: ">> \o constraint.err
        ELSE IF ~IsSatisfiedBy(constraint.constraint, actual.version)
        THEN <<"version does not satisfy constraint">>
        ELSE NoError
        : actual \in {ParseVersion(actualVersion)},
          constraint \in {ParseConstraint(requiredVersion)}})

\* DetermineStatus that looks at the version before the error message
DetermineStatus_VersionFirst(cr) ==
    IF cr.ActualVersion = <<>> THEN [cr EXCEPT !.Status = StatusNotFound]
    ELSE IF cr.ErrorMessage # <<>> THEN [cr EXCEPT !.Status = StatusError]
    ELSE [cr EXCEPT !.Status = StatusOK]

DetermineStatus(cr) ==
    IF cr.ErrorMessage # <<>> THEN [cr EXCEPT !.Status = StatusError]
    ELSE IF cr.ActualVersion = <<>> THEN [cr EXCEPT !.Status = StatusNotFound]
    ELSE [cr EXCEPT !.Status = StatusOK]

AddError(cr, errMsg) == [cr EXCEPT !.ErrorMessage = errMsg, !.Status = StatusError]

\* CheckTool that sets no message when the version cannot be extracted
CheckTool_NoExtractMessage(tool, env) ==
    LET result == [ToolID |-> tool.ID, RequiredVersion |-> tool.RequiredVersion,
                   ActualVersion |-> <<>>, Status |-> StatusNotFound,
                   ErrorMessage |-> <<>>]
        found == getToolPath(env)
        extracted == extractVersion(tool, env)
        invalid == validateVersion(extracted.version, tool.RequiredVersion)
    IN
    IF found.err # NoError \/ ~found.available
    THEN [result EXCEPT !.Status = StatusNotFound,
                        !.ErrorMessage = IF found.err # NoError THEN found.err
                                         ELSE <<"Command not found">>]
    ELSE IF extracted.err # NoError
    THEN [result EXCEPT !.Status = StatusError]
    ELSE IF invalid # NoError
    THEN DetermineStatus([result EXCEPT !.ActualVersion = extracted.version,
                                        !.Status = StatusOutdated,
                                        !.ErrorMessage = invalid])
    ELSE DetermineStatus([result EXCEPT !.ActualVersion = extracted.version,
                                        !.Status = StatusOK])

CheckTool(tool, env) ==
    LET result == [ToolID |-> tool.ID, RequiredVersion |-> tool.RequiredVersion,
                   ActualVersion |-> <<>>, Status |-> StatusNotFound,
                   ErrorMessage |-> <<>>]
        found == getToolPath(env)
        extracted == extractVersion(tool, env)
        invalid == validateVersion(extracted.version, tool.RequiredVersion)
    IN
    IF found.err # NoError \/ ~found.available
    THEN [result EXCEPT !.Status = StatusNotFound,
                        !.ErrorMessage = IF found.err # NoError THEN found.err
                                         ELSE <<"Command not found">>]
    ELSE IF extracted.err # NoError
    THEN [result EXCEPT !.Status = StatusError, !.ErrorMessage = extracted.err]
    ELSE IF invalid # NoError
    THEN DetermineStatus([result EXCEPT !.ActualVersion = extracted.version,
                                        !.Status = StatusOutdated,
                                        !.ErrorMessage = invalid])
    ELSE DetermineStatus([result EXCEPT !.ActualVersion = extracted.version,
                                        !.Status = StatusOK])

\* the loop of runDoctorCommand: tools[i] is checked on the machine envs[i]
CheckMultipleTools(tools, envs) ==
    [i \in 1..Len(tools) |-> CheckTool(tools[i], envs[i])]

\* the number of items of the given status
CountStatus(items, status) ==
    Cardinality({i \in 1..Len(items) : items[i].Status = status})

CalculateCheckSummary(items) ==
    [Total |-> Len(items),
     OK |-> CountStatus(items, StatusOK),
     Missing |-> CountStatus(items, StatusMissing),
     Outdated |-> CountStatus(items, StatusOutdated),
     Errors |-> CountStatus(items, StatusError)]

NewEnvironmentReport(items) ==
    [SchemaVersion |-> 1, Summary |-> CalculateCheckSummary(items), Items |-> items]

IsSuccessful(er) ==
    er.Summary.Missing = 0 /\ er.Summary.Outdated = 0 /\ er.Summary.Errors = 0

GetExitCode(er) == IF IsSuccessful(er) THEN 0 ELSE 1

\* runDoctorCommand once the manifest is loaded
runDoctorCommand(tools, envs) ==
    The({[report |-> report, exit |-> GetExitCode(report)] :
            report \in {NewEnvironmentReport(results) :
                           results \in {CheckMultipleTools(tools, envs)}}})

(***************************************************************************)
(* The manifest: ToolDefinition.ValidateVersionConstraint, Manifest.Merge. *)
(***************************************************************************)
\* \d+(\.\d+)* on the whole of s
DottedNumber(s) ==
    /\ s # <<>>
    /\ \A i \in 1..Len(s) : s[i] \in Digit \cup {"."}
    /\ s[1] # "." /\ s[Len(s)] # "."
    /\ \A i \in 1..(Len(s) - 1) : ~(s[i] = "." /\ s[i + 1] = ".")

\* the operators the single-constraint patterns of validPatterns start with
PatternPrefixes == {<<>>, <<">", "=">>, <<">">>, <<"<", "=">>, <<"<">>, <<"~">>, <<"^">>}

\* ^>=\d+(\.\d+)* <\d+(\.\d+)*$
RangePattern(s) ==
    \E i \in 1..Len(s) :
        /\ s[i] = " "
        /\ HasPrefix(s, <<">", "=">>) /\ DottedNumber(SubSeq(s, 3, i - 1))
        /\ i < Len(s) /\ s[i + 1] = "<" /\ DottedNumber(SubSeq(s, i + 2, Len(s)))

ValidateVersionConstraint(requiredVersion) ==
    IF requiredVersion = <<>> THEN <<"version constraint cannot be empty">>
    ELSE IF \/ \E prefix \in PatternPrefixes :
                   /\ HasPrefix(requiredVersion, prefix)
                   /\ DottedNumber(SubSeq(requiredVersion, Len(prefix) + 1,
                                          Len(requiredVersion)))
            \/ RangePattern(requiredVersion)
    THEN NoError
    ELSE <<"invalid version constraint format: ">> \o requiredVersion

mergeDefaults(defaults, other) ==
    [TimeoutSeconds |-> IF other.TimeoutSeconds > 0 THEN other.TimeoutSeconds
                        ELSE defaults.TimeoutSeconds,
     RegexKey |-> IF other.RegexKey # <<>> THEN other.RegexKey ELSE defaults.RegexKey]

\* the keys of the map otherTools
ToolIDs(tools) == {tools[i].ID : i \in 1..Len(tools)}

\* the tools of the sequence whose ID is not among ids, in their order
RECURSIVE NotIn(_, _)
NotIn(tools, ids) ==
    IF tools = <<>> THEN <<>>
    ELSE (IF Head(tools).ID \in ids THEN <<>> ELSE <<Head(tools)>>)
             \o NotIn(Tail(tools), ids)

\* Merge that appends every tool of the base manifest
Merge_KeepsAll(m, other) ==
    [Meta |-> other.Meta,
     Defaults |-> mergeDefaults(m.Defaults, other.Defaults),
     Tools |-> other.Tools \o m.Tools]

Merge(m, other) ==
    [Meta |-> other.Meta,
     Defaults |-> mergeDefaults(m.Defaults, other.Defaults),
     Tools |-> other.Tools \o NotIn(m.Tools, ToolIDs(other.Tools))]

(***************************************************************************)
(* Inputs of the checker and of the manifest.                              *)
(***************************************************************************)
MaxComponents == 4

\* the dotted numbers of k components over Nums
RECURSIVE DottedOf(_)
DottedOf(k) ==
    IF k = 1 THEN {Itoa(n) : n \in Nums}
    ELSE {d \o <<".">> \o Itoa(n) : d \in DottedOf(k - 1), n \in Nums}

ShortVersionStrings == UNION {DottedOf(k) : k \in 1..3}

RequirementTokens == PatternPrefixes \cup {<<"=">>, <<"!", "=">>, <<"=", ">">>}

RangeStrings ==
    {<<">", "=">> \o low \o <<" ", "<">> \o high : low \in DottedOf(2), high \in DottedOf(2)}

\* the RequiredVersion of a tool
ToolRequirements ==
    {<<>>} \cup {t \o d : t \in RequirementTokens, d \in ShortVersionStrings}
           \cup RangeStrings

\* what the capture group of the tool's regular expression may hold
Captures ==
    ShortVersionStrings
        \cup {<<>>, <<" ">>, <<"a">>, <<" ", "1">>, <<"1", "-", "a">>}

GroupNames == {<<>>, <<"v", "e", "r">>, <<"V", "e", "r">>, <<"x">>}

FoundEnv == [lookup |-> "found", path |-> <<"/", "t", "\n">>, run |-> "ok",
             compiles |-> TRUE, matched |-> FALSE, matches |-> <<>>, names |-> <<<<>>>>]

Envs ==
    {[FoundEnv EXCEPT !.lookup = l] : l \in {"missing", "timeout"}}
        \cup {[FoundEnv EXCEPT !.run = r] : r \in {"timeout", "failed"}}
        \cup {FoundEnv, [FoundEnv EXCEPT !.compiles = FALSE],
              [FoundEnv EXCEPT !.matched = TRUE, !.matches = <<<<"t">>>>]}
        \cup {[FoundEnv EXCEPT !.matched = TRUE, !.matches = <<<<"t", " ">> \o g, g>>,
                                !.names = <<<<>>, n>>] :
                  g \in Captures, n \in GroupNames}

Tool(id, required) ==
    [ID |-> id, RequiredVersion |-> required, Command |-> <<"t", "--version">>,
     Regex |-> <<"(", ".", "*", ")">>]

Tools ==
    {Tool("t", required) : required \in ToolRequirements}
        \cup {[Tool("t", <<"1">>) EXCEPT !.Regex = <<>>]}

DetectedVersions == {TrimSpace(g) : g \in Captures}

CheckResults ==
    [ToolID : {"t"}, RequiredVersion : {<<"1">>}, ActualVersion : {<<>>, <<"1">>},
     Status : CheckStatus, ErrorMessage : {<<>>, <<"e">>}]

\* the tools of a loaded manifest and the machines they are checked on
DoctorRequirements == {<<">", "=", "1">>, <<">", "=", "0", ".", "1", " ", "<", "1", ".", "1">>}

DoctorEnvs ==
    {[FoundEnv EXCEPT !.lookup = l] : l \in {"missing", "timeout"}}
        \cup {[FoundEnv EXCEPT !.run = "failed"]}
        \cup {[FoundEnv EXCEPT !.matched = TRUE, !.matches = <<<<"t", " ">> \o g, g>>,
                               !.names = <<<<>>, <<"v", "e", "r">>>>] :
                  g \in {<<"1", ".", "0", ".", "0">>, <<"0", ".", "1", ".", "0">>, <<"a">>}}

ToolID(i) == <<"t">> \o Itoa(i)

DoctorRuns ==
    UNION {[tools : [1..n -> {Tool("t", r) : r \in DoctorRequirements}],
            envs : [1..n -> DoctorEnvs]] : n \in 0..MaxList}

\* the tools of a run carry the IDs of a validated manifest: no two alike
WithIDs(tools) == [i \in 1..Len(tools) |-> [tools[i] EXCEPT !.ID = ToolID(i)]]

ManifestAlphabet == {"1", ".", ">", "=", "<", " ", "x"}

ManifestStrings ==
    UNION {[1..n -> ManifestAlphabet] : n \in 0..MaxStrLen}
        \cup {t \o d : t \in RequirementTokens,
                       d \in UNION {DottedOf(k) : k \in 1..MaxComponents}}
        \cup RangeStrings

ManifestTools == {Tool(id, required) : id \in {"go", "git"}, required \in {<<"1">>, <<"2">>}}

ManifestDefaults == [TimeoutSeconds : {0, 5}, RegexKey : {<<>>}]

ManifestsNamed(name) ==
    UNION {[Meta : {[Version |-> 1, Name |-> name]}, Defaults : ManifestDefaults,
            Tools : [1..n -> ManifestTools]] : n \in 0..MaxList}

(***************************************************************************)
(* Calls of the checker and of the manifest.                               *)
(***************************************************************************)
CallCheckTool ==
    /\ Pending("CheckTool", args)
    /\ Return(CheckTool(args.tool, args.env))

CallValidateVersion ==
    /\ Pending("validateVersion", args)
    /\ Return(validateVersion(args.actualVersion, args.requiredVersion))

CallDetermineStatus ==
    /\ Pending("DetermineStatus", args)
    /\ Return(DetermineStatus(args.cr))

CallAddError ==
    /\ Pending("AddError", args)
    /\ Return(AddError(args.cr, args.errMsg))

CallRunDoctorCommand ==
    /\ Pending("runDoctorCommand", args)
    /\ Return(runDoctorCommand(args.tools, args.envs))

CallValidateVersionConstraint ==
    /\ Pending("ValidateVersionConstraint", args)
    /\ Return(ValidateVersionConstraint(args.RequiredVersion))

CallMerge ==
    /\ Pending("Merge", args)
    /\ Return(Merge(args.m, args.other))

\* The checker: one tool checked, one status set, one run of the doctor command
InitChecker ==
    \/ \E tool \in Tools, env \in Envs : Pending("CheckTool", [tool |-> tool, env |-> env])
    \/ \E actual \in DetectedVersions, required \in ToolRequirements :
          Pending("validateVersion", [actualVersion |-> actual, requiredVersion |-> required])
    \/ \E cr \in CheckResults : Pending("DetermineStatus", [cr |-> cr])
    \/ \E cr \in CheckResults, errMsg \in {<<>>, <<"e">>, <<"f">>} :
          Pending("AddError", [cr |-> cr, errMsg |-> errMsg])
    \/ \E run \in DoctorRuns :
          Pending("runDoctorCommand", [tools |-> WithIDs(run.tools), envs |-> run.envs])

NextChecker ==
    \/ CallCheckTool
    \/ CallValidateVersion
    \/ CallDetermineStatus
    \/ CallAddError
    \/ CallRunDoctorCommand

SpecChecker == InitChecker /\ [][NextChecker]_vars

\* The manifest: one requirement validated, two manifests merged
InitManifest ==
    \/ \E required \in ManifestStrings :
          Pending("ValidateVersionConstraint", [RequiredVersion |-> required])
    \/ \E m \in ManifestsNamed("base"), other \in ManifestsNamed("other") :
          Pending("Merge", [m |-> m, other |-> other])

NextManifest == CallValidateVersionConstraint \/ CallMerge

SpecManifest == InitManifest /\ [][NextManifest]_vars

\* every call of the engine
Init ==
    InitOrder \/ InitEvaluate \/ InitParse \/ InitRender \/ InitChecker \/ InitManifest

Next ==
    NextOrder \/ NextEvaluate \/ NextParse \/ NextRender \/ NextChecker \/ NextManifest

Spec == Init /\ [][Next]_vars

(***************************************************************************)
(* Notions the properties are stated with.                                 *)
(***************************************************************************)
\* s precedes t in lexicographic byte order
LexLess(s, t) ==
    \E k \in 1..Len(t) :
        /\ k <= Len(s) + 1
        /\ \A i \in 1..(k - 1) : s[i] = t[i]
        /\ (k = Len(s) + 1 \/ ByteOf(s[k]) < ByteOf(t[k]))

SameCore(v, w) == v.Major = w.Major /\ v.Minor = w.Minor /\ v.Patch = w.Patch

Release(major, minor, patch) ==
    [Major |-> major, Minor |-> minor, Patch |-> patch, Prerelease |-> <<>>, Build |-> <<>>]

IsDigits(s) == s # <<>> /\ \A i \in 1..Len(s) : s[i] \in Digit

(***************************************************************************)
(* Concurrent callers.  A call is taken one statement at a time: it first  *)
(* assigns its local variable (matches in the parsers, comparison in       *)
(* IsSatisfiedBy, the loop index in SatisfiesAll) and then goes on from    *)
(* that local.  The package variables versionRegex and constraintRegex are *)
(* assigned once, at initialisation, and only read afterwards.             *)
(***************************************************************************)
NumCallers == 2

Callers == 1..NumCallers

\* one frame of locals for all callers, as a package-level variable would be
FrameOf_Shared(self) == 1

\* the locals of a call live in the frame of that call
FrameOf(self) == self

\* ParseVersion from the statement after the match
ParseVersionFromMatches(versionStr, matches) ==
    IF ~matches.ok
    THEN [version |-> ZeroVersion, err |-> <<"invalid version format: ">> \o versionStr]
    ELSE IF ~AtoiInRange(matches.m1)
    THEN [version |-> ZeroVersion, err |-> <<"invalid major version: ">> \o matches.m1]
    ELSE IF matches.m2 # <<>> /\ ~AtoiInRange(matches.m2)
    THEN [version |-> ZeroVersion, err |-> <<"invalid minor version: ">> \o matches.m2]
    ELSE IF matches.m3 # <<>> /\ ~AtoiInRange(matches.m3)
    THEN [version |-> ZeroVersion, err |-> <<"invalid patch version: ">> \o matches.m3]
    ELSE [version |-> [Major |-> AtoiValue(matches.m1),
                       Minor |-> IF matches.m2 # <<>> THEN AtoiValue(matches.m2) ELSE 0,
                       Patch |-> IF matches.m3 # <<>> THEN AtoiValue(matches.m3) ELSE 0,
                       Prerelease |-> matches.m4,
                       Build |-> matches.m5],
          err |-> NoError]

\* ParseConstraint from the statement after the match
ParseConstraintFromMatches(constraintStr, matches) ==
    IF ~matches.ok
    THEN [constraint |-> ZeroConstraint,
          err |-> <<"invalid constraint format: ">> \o constraintStr]
    ELSE LET operatorStr == matches.m1
             versionStr == matches.m2
             known == operatorStr \in {<<">", "=">>, <<">">>, <<"<", "=">>, <<"<">>, <<"~">>,
                                       <<"^">>, <<"!", "=">>, <<>>, <<"=">>}
             operator == CASE operatorStr = <<">", "=">> -> OpGreaterEqual
                           [] operatorStr = <<">">> -> OpGreater
                           [] operatorStr = <<"<", "=">> -> OpLessEqual
                           [] operatorStr = <<"<">> -> OpLess
                           [] operatorStr = <<"~">> -> OpTilde
                           [] operatorStr = <<"^">> -> OpCaret
                           [] operatorStr = <<"!", "=">> -> OpNotEqual
                           [] OTHER -> OpEqual
             parsed == ParseVersion(versionStr)
         IN
    IF ~known
    THEN [constraint |-> ZeroConstraint, err |-> <<"unknown operator: ">> \o operatorStr]
    ELSE IF parsed.err # NoError
    THEN [constraint |-> ZeroConstraint,
          err |-> <<"invalid version in constraint: ">> \o parsed.err]
    ELSE [constraint |-> [Operator |-> operator, Version |-> parsed.version],
          err |-> NoError]

\* the switch of IsSatisfiedBy on the comparison it computed
IsSatisfiedBySwitch(c, version, comparison) ==
    CASE c.Operator = OpEqual -> comparison = 0
      [] c.Operator = OpGreater -> comparison > 0
      [] c.Operator = OpGreaterEqual -> comparison >= 0
      [] c.Operator = OpLess -> comparison < 0
      [] c.Operator = OpLessEqual -> comparison <= 0
      [] c.Operator = OpNotEqual -> comparison # 0
      [] c.Operator = OpTilde -> tildeConstraint(c, version)
      [] c.Operator = OpCaret -> caretConstraint(c, version)
      [] OTHER -> FALSE

Str1 == <<"1">>
Str11 == <<"1", ".", "1">>
StrPre == <<"1", "-", "a">>

\* the calls the callers choose from
ConcurrentCalls ==
    {[fn |-> "ParseVersion", args |-> [versionStr |-> str]] :
        str \in {<<>>, Str1, Str11, StrPre, <<"a">>}}
    \cup {[fn |-> "ParseConstraint", args |-> [constraintStr |-> str]] :
        str \in {<<>>, <<">", "=">> \o Str1, <<"~">> \o Str11, <<"=">> \o Str1}}
    \cup {[fn |-> "Compare", args |-> [v |-> v, other |-> Release(1, 0, 0)]] :
        v \in {Release(0, 1, 0), Release(1, 1, 0)}}
    \cup {[fn |-> "IsSatisfiedBy", args |-> [c |-> [Operator |-> op, Version |-> Release(1, 0, 0)],
                                            version |-> v]] :
        op \in {OpGreaterEqual, OpLess}, v \in {Release(0, 1, 0), Release(1, 1, 0)}}
    \cup {[fn |-> "SatisfiesAll",
           args |-> [version |-> v,
                     constraints |-> <<[Operator |-> OpGreaterEqual, Version |-> Release(1, 0, 0)],
                                       [Operator |-> OpLess, Version |-> Release(1, 1, 0)]>>]] :
        v \in {Release(0, 1, 0), Release(1, 0, 0), Release(1, 1, 0)}}

InitConcurrent ==
    /\ pc = [self \in Callers |-> "call"]
    /\ \E calls \in [Callers -> ConcurrentCalls] :
          /\ fn = [self \in Callers |-> calls[self].fn]
          /\ args = [self \in Callers |-> calls[self].args]
    /\ ret = [self \in Callers |-> "none"]
    /\ frames = [f \in {FrameOf(self) : self \in Callers} |-> "none"]

\* the statement that assigns the local of the call
SetLocal(self, value) ==
    /\ frames' = [frames EXCEPT ![FrameOf(self)] = value]
    /\ pc' = [pc EXCEPT ![self] = "mid"]
    /\ UNCHANGED <<fn, args, ret>>

\* the return statement
ReturnTo(self, r) ==
    /\ ret' = [ret EXCEPT ![self] = r]
    /\ pc' = [pc EXCEPT ![self] = "done"]
    /\ UNCHANGED <<fn, args, frames>>

StepParseVersion(self) ==
    /\ fn[self] = "ParseVersion"
    /\ \/ /\ pc[self] = "call" /\ args[self].versionStr = <<>>
          /\ ReturnTo(self, [version |-> ZeroVersion,
                             err |-> <<"version string cannot be empty">>])
       \/ /\ pc[self] = "call" /\ args[self].versionStr # <<>>
          /\ SetLocal(self, versionRegex(args[self].versionStr))
       \/ /\ pc[self] = "mid"
          /\ ReturnTo(self, ParseVersionFromMatches(args[self].versionStr,
                                                    frames[FrameOf(self)]))

StepParseConstraint(self) ==
    /\ fn[self] = "ParseConstraint"
    /\ \/ /\ pc[self] = "call" /\ args[self].constraintStr = <<>>
          /\ ReturnTo(self, [constraint |-> ZeroConstraint,
                             err |-> <<"constraint string cannot be empty">>])
       \/ /\ pc[self] = "call" /\ args[self].constraintStr # <<>>
          /\ SetLocal(self, constraintRegex(args[self].constraintStr))
       \/ /\ pc[self] = "mid"
          /\ ReturnTo(self, ParseConstraintFromMatches(args[self].constraintStr,
                                                       frames[FrameOf(self)]))

StepCompare(self) ==
    /\ fn[self] = "Compare" /\ pc[self] = "call"
    /\ ReturnTo(self, Compare(args[self].v, args[self].other))

StepIsSatisfiedBy(self) ==
    /\ fn[self] = "IsSatisfiedBy"
    /\ \/ /\ pc[self] = "call"
          /\ SetLocal(self, Compare(args[self].version, args[self].c.Version))
       \/ /\ pc[self] = "mid"
          /\ ReturnTo(self, IsSatisfiedBySwitch(args[self].c, args[self].version,
                                                frames[FrameOf(self)]))

\* the local is the index of the constraint the loop looks at next
StepSatisfiesAll(self) ==
    /\ fn[self] = "SatisfiesAll"
    /\ \/ /\ pc[self] = "call"
          /\ SetLocal(self, 1)
       \/ /\ pc[self] = "mid" /\ frames[FrameOf(self)] > Len(args[self].constraints)
          /\ ReturnTo(self, TRUE)
       \/ /\ pc[self] = "mid" /\ frames[FrameOf(self)] <= Len(args[self].constraints)
          /\ ~IsSatisfiedBy(args[self].constraints[frames[FrameOf(self)]], args[self].version)
          /\ ReturnTo(self, FALSE)
       \/ /\ pc[self] = "mid" /\ frames[FrameOf(self)] <= Len(args[self].constraints)
          /\ IsSatisfiedBy(args[self].constraints[frames[FrameOf(self)]], args[self].version)
          /\ SetLocal(self, frames[FrameOf(self)] + 1)

NextConcurrent ==
    \E self \in Callers :
        \/ StepParseVersion(self)
        \/ StepParseConstraint(self)
        \/ StepCompare(self)
        \/ StepIsSatisfiedBy(self)
        \/ StepSatisfiesAll(self)

SpecConcurrent == InitConcurrent /\ [][NextConcurrent]_vars

(***************************************************************************)
(* Properties of the satisfaction evaluator and of Compare.                *)
(***************************************************************************)
\* C1: for each of the operators =, >, >=, <, <=, != the result of
\* Constraint{op, B}.IsSatisfiedBy(v) is the corresponding test on v.Compare(B);
\* a prerelease X.Y.Z-p never satisfies >=X.Y.Z, and X.Y.Z-p2 satisfies
\* >=X.Y.Z-p1 exactly when p2 >= p1 as strings.
C1_ComparisonOperators ==
    Done("IsSatisfiedBy") =>
        LET op == args.c.Operator
            B == args.c.Version
            v == args.version
            cmp == Compare(v, B)
        IN  /\ op = OpEqual => ret = (cmp = 0)
            /\ op = OpGreater => ret = (cmp > 0)
            /\ op = OpGreaterEqual => ret = (cmp >= 0)
            /\ op = OpLess => ret = (cmp < 0)
            /\ op = OpLessEqual => ret = (cmp <= 0)
            /\ op = OpNotEqual => ret = (cmp # 0)
            /\ (op = OpGreaterEqual /\ SameCore(v, B) /\ v.Prerelease # <<>>
                    /\ B.Prerelease = <<>>) => ret = FALSE
            /\ (op = OpGreaterEqual /\ SameCore(v, B) /\ v.Prerelease # <<>>
                    /\ B.Prerelease # <<>>) =>
                  ret = ~LexLess(v.Prerelease, B.Prerelease)

\* a prerelease candidate was tested against >= of its own release and against
\* >= of a smaller prerelease
C1_Witness ==
    /\ Done("IsSatisfiedBy")
    /\ args.c.Operator = OpGreaterEqual
    /\ SameCore(args.version, args.c.Version)
    /\ args.version.Prerelease = <<"a", "b">>
    /\ args.c.Version.Prerelease = <<"a">>
    /\ ret = TRUE

\* C2: Compare returns -1, 0 or +1 decided by the first unequal field among
\* major, minor and patch; with all three equal, two releases are equal, a
\* release is greater than a prerelease, and two prereleases are ordered by
\* lexicographic string comparison.
C2_CompareRule ==
    Done("Compare") =>
        LET a == args.v
            b == args.other
            sign(x, y) == IF x < y THEN -1 ELSE 1
        IN  /\ ret \in {-1, 0, 1}
            /\ a.Major # b.Major => ret = sign(a.Major, b.Major)
            /\ (a.Major = b.Major /\ a.Minor # b.Minor) => ret = sign(a.Minor, b.Minor)
            /\ (a.Major = b.Major /\ a.Minor = b.Minor /\ a.Patch # b.Patch) =>
                  ret = sign(a.Patch, b.Patch)
            /\ SameCore(a, b) =>
                  /\ (a.Prerelease = <<>> /\ b.Prerelease = <<>>) => ret = 0
                  /\ (a.Prerelease = <<>> /\ b.Prerelease # <<>>) => ret = 1
                  /\ (a.Prerelease # <<>> /\ b.Prerelease = <<>>) => ret = -1
                  /\ (a.Prerelease # <<>> /\ b.Prerelease # <<>>) =>
                        /\ (ret = -1) = LexLess(a.Prerelease, b.Prerelease)
                        /\ (ret = 1) = LexLess(b.Prerelease, a.Prerelease)
                        /\ (ret = 0) = (a.Prerelease = b.Prerelease)

\* the patch field decided, and so did two prereleases
C2_Witness ==
    /\ Done("Compare")
    /\ args.v.Major = args.other.Major /\ args.v.Minor = args.other.Minor
    /\ args.v.Patch > args.other.Patch
    /\ args.v.Prerelease = <<"a">> /\ args.other.Prerelease = <<>>
    /\ ret = 1

\* C3: Compare is a total order: Compare(a,b) = -Compare(b,a), and
\* Compare(a,b) <= 0 with Compare(b,c) <= 0 implies Compare(a,c) <= 0.
C3_TotalOrder ==
    Done("CompareChain") =>
        /\ ret.ab = -ret.ba
        /\ (ret.ab <= 0 /\ ret.bc <= 0) => ret.ac <= 0

\* a chain a < b < c decided by prereleases and a release
C3_Witness ==
    /\ Done("CompareChain")
    /\ SameCore(args.a, args.b) /\ SameCore(args.b, args.c)
    /\ args.a.Prerelease = <<"a", "b">> /\ args.b.Prerelease = <<"b">>
    /\ args.c.Prerelease = <<>>
    /\ ret.ab = -1 /\ ret.bc = -1 /\ ret.ac = -1

\* C4 as stated: for B = 0.0.z and v.major = B.major, ^B is satisfied exactly
\* when v.patch = B.patch, whatever v.minor is.
C4_CaretRuleAsStated ==
    (Done("IsSatisfiedBy") /\ args.c.Operator = OpCaret) =>
        LET B == args.c.Version
            v == args.version
        IN  /\ v.Major # B.Major => ret = FALSE
            /\ (v.Major = B.Major /\ B.Major = 0 /\ B.Minor = 0) =>
                  ret = (v.Patch = B.Patch)
            /\ (v.Major = B.Major /\ B.Major = 0 /\ B.Minor # 0) =>
                  ret = (v.Minor = B.Minor /\ v.Patch >= B.Patch)
            /\ (v.Major = B.Major /\ B.Major > 0) =>
                  ret = (\/ v.Minor > B.Minor
                         \/ v.Minor = B.Minor /\ v.Patch >= B.Patch)

\* C4 (amended): ^B is not satisfied by v when v.major # B.major; for B = 0.0.z
\* it is satisfied exactly when v.minor = 0 and v.patch = B.patch; for B = 0.y.z
\* with y # 0 exactly when v.minor = B.minor and v.patch >= B.patch; for
\* B.major > 0 exactly when v.minor > B.minor, or v.minor = B.minor and
\* v.patch >= B.patch.
C4_CaretRule ==
    (Done("IsSatisfiedBy") /\ args.c.Operator = OpCaret) =>
        LET B == args.c.Version
            v == args.version
        IN  /\ v.Major # B.Major => ret = FALSE
            /\ (v.Major = B.Major /\ B.Major = 0 /\ B.Minor = 0) =>
                  ret = (v.Minor = 0 /\ v.Patch = B.Patch)
            /\ (v.Major = B.Major /\ B.Major = 0 /\ B.Minor # 0) =>
                  ret = (v.Minor = B.Minor /\ v.Patch >= B.Patch)
            /\ (v.Major = B.Major /\ B.Major > 0) =>
                  ret = (\/ v.Minor > B.Minor
                         \/ v.Minor = B.Minor /\ v.Patch >= B.Patch)

\* a 0.0.z bound rejected a candidate of another minor with the same patch
C4_Witness ==
    /\ Done("IsSatisfiedBy") /\ args.c.Operator = OpCaret
    /\ args.c.Version.Major = 0 /\ args.c.Version.Minor = 0
    /\ args.version.Major = 0 /\ args.version.Minor # 0
    /\ args.version.Patch = args.c.Version.Patch
    /\ ret = FALSE

\* C5: ~B is satisfied by v exactly when v satisfies both >=B and
\* <(B.major).(B.minor+1).0 under Compare, prereleases included.
C5_TildeIsRange ==
    (Done("IsSatisfiedBy") /\ args.c.Operator = OpTilde) =>
        LET B == args.c.Version
            v == args.version
            upper == Release(B.Major, B.Minor + 1, 0)
        IN  ret = (/\ IsSatisfiedBy([Operator |-> OpGreaterEqual, Version |-> B], v)
                   /\ IsSatisfiedBy([Operator |-> OpLess, Version |-> upper], v))

\* C7: ^B is satisfied by v exactly when v satisfies >=B and lies below the
\* next breaking version under Compare: (B.major+1).0.0 when B.major > 0,
\* 0.(B.minor+1).0 when B.major = 0 and B.minor > 0, 0.0.(B.patch+1) when
\* B.major = 0 and B.minor = 0.
C7_CaretIsRange ==
    (Done("IsSatisfiedBy") /\ args.c.Operator = OpCaret) =>
        LET B == args.c.Version
            v == args.version
            upper == IF B.Major > 0 THEN Release(B.Major + 1, 0, 0)
                     ELSE IF B.Minor > 0 THEN Release(0, B.Minor + 1, 0)
                     ELSE Release(0, 0, B.Patch + 1)
        IN  ret = (/\ IsSatisfiedBy([Operator |-> OpGreaterEqual, Version |-> B], v)
                   /\ IsSatisfiedBy([Operator |-> OpLess, Version |-> upper], v))

\* C8: SatisfiesAll(v, cs) is true iff every constraint of cs is satisfied by
\* v, and the result is the same for every permutation of cs.
C8_SatisfiesAllIsConjunction ==
    Done("SatisfiesAll") =>
        LET v == args.version
            cs == args.constraints
            n == Len(cs)
            Perms == {p \in [1..n -> 1..n] : \A i, j \in 1..n : p[i] = p[j] => i = j}
        IN  /\ ret = (\A i \in 1..n : IsSatisfiedBy(cs[i], v))
            /\ \A p \in Perms : SatisfiesAll(v, [i \in 1..n |-> cs[p[i]]]) = ret

\* a list whose first constraint is satisfied and whose last is not
C8_Witness ==
    /\ Done("SatisfiesAll")
    /\ Len(args.constraints) >= 2
    /\ IsSatisfiedBy(args.constraints[1], args.version)
    /\ ~IsSatisfiedBy(args.constraints[Len(args.constraints)], args.version)
    /\ ret = FALSE

\* C10: build metadata never affects ordering or satisfaction: replacing the
\* Build field of either version of a Compare call, of the candidate of an
\* IsSatisfiedBy call or of the bound of its constraint leaves the result as it is.
C10_BuildIgnored ==
    /\ Done("Compare") =>
          \A build \in Builds :
              /\ Compare([args.v EXCEPT !.Build = build], args.other) = ret
              /\ Compare(args.v, [args.other EXCEPT !.Build = build]) = ret
    /\ Done("IsSatisfiedBy") =>
          \A build \in Builds :
              /\ IsSatisfiedBy(args.c, [args.version EXCEPT !.Build = build]) = ret
              /\ IsSatisfiedBy([args.c EXCEPT !.Version.Build = build], args.version) = ret

\* two versions that differ only in their build metadata were compared
C10_Witness ==
    /\ Done("Compare")
    /\ SameCore(args.v, args.other) /\ args.v.Prerelease = args.other.Prerelease
    /\ args.v.Build = <<"x">> /\ args.other.Build = <<>>
    /\ ret = 0

C9_AbsentComponentsDefault ==
    Done("ParseVersion") =>
        LET str == args.versionStr
            MutuallyEqual(long) ==
                LET w == ParseVersion(long)
                    cShort == ParseConstraint(str)
                    cLong == ParseConstraint(long)
                IN  /\ ret.err = NoError /\ w.err = NoError
                    /\ Compare(ret.version, w.version) = 0
                    /\ Compare(w.version, ret.version) = 0
                    /\ cShort.err = NoError /\ cShort.constraint.Operator = OpEqual
                    /\ cLong.err = NoError /\ cLong.constraint.Operator = OpEqual
                    /\ IsSatisfiedBy(cLong.constraint, ret.version)
                    /\ IsSatisfiedBy(cShort.constraint, w.version)
        IN  /\ IsDigits(str) => MutuallyEqual(str \o <<".", "0", ".", "0">>)
            /\ (\E k \in 2..(Len(str) - 1) :
                    /\ str[k] = "."
                    /\ IsDigits(SubSeq(str, 1, k - 1))
                    /\ IsDigits(SubSeq(str, k + 1, Len(str)))) =>
                  MutuallyEqual(str \o <<".", "0">>)

\* "1.1" was parsed to 1.1.0, and "01" to 1.0.0
C9_Witness ==
    /\ Done("ParseVersion")
    /\ \/ args.versionStr = <<"1", ".", "1">> /\ ret.version = Release(1, 1, 0)
       \/ args.versionStr = <<"0", "1">> /\ ret.version = Release(1, 0, 0)
    /\ ret.err = NoError

(***************************************************************************)
(* Properties of the parsers and of rendering.                             *)
(***************************************************************************)
\* t is one or more non-empty parts over class, at most maxParts of them,
\* separated by single dots
IsDotted(t, class, maxParts) ==
    /\ t # <<>>
    /\ \A k \in 1..Len(t) : t[k] \in class \cup {"."}
    /\ t[1] # "." /\ t[Len(t)] # "."
    /\ \A k \in 1..(Len(t) - 1) : ~(t[k] = "." /\ t[k + 1] = ".")
    /\ Cardinality({k \in 1..Len(t) : t[k] = "."}) < maxParts

\* ["v"] MAJOR ["." MINOR ["." PATCH]] ["-" PRERELEASE] ["+" BUILD] with
\* PRERELEASE and BUILD made of non-empty segments of [0-9A-Za-z-]
MatchesGrammar(s) ==
    LET body == IF s # <<>> /\ Head(s) = "v" THEN Tail(s) ELSE s
        n == Len(body)
        Segment == PreClass \ {"."}
    IN  \E i \in 1..n, j \in 1..n :
            /\ i <= j
            /\ IsDotted(SubSeq(body, 1, i), Digit, 3)
            /\ \/ j = i
               \/ body[i + 1] = "-" /\ IsDotted(SubSeq(body, i + 2, j), Segment, n)
            /\ \/ j = n
               \/ body[j + 1] = "+" /\ IsDotted(SubSeq(body, j + 2, n), Segment, n)

\* C11: ParseVersion succeeds on a string exactly when the whole string
\* matches the grammar, whose prerelease and build are one or more
\* dot-separated non-empty segments of [0-9A-Za-z-]; every other string is a
\* parse error.
C11_SucceedsExactlyOnGrammar ==
    Done("ParseVersion") => ((ret.err = NoError) = MatchesGrammar(args.versionStr))

\* the operator each token denotes
OperatorOf(token) ==
    CASE token = <<">", "=">> -> OpGreaterEqual
      [] token = <<"<", "=">> -> OpLessEqual
      [] token = <<">">> -> OpGreater
      [] token = <<"<">> -> OpLess
      [] token = <<"~">> -> OpTilde
      [] token = <<"^">> -> OpCaret
      [] token = <<"!", "=">> -> OpNotEqual

Tokens == {<<">", "=">>, <<"<", "=">>, <<">">>, <<"<">>, <<"~">>, <<"^">>, <<"!", "=">>}

Rest(s, token) == SubSeq(s, Len(token) + 1, Len(s))

\* C12: for every valid version string V, ParseConstraint("=" + V) succeeds
\* and yields the constraint ParseConstraint(V) yields: OpEqual with
\* ParseVersion(V).
C12_EqualsToken ==
    (Done("ParseConstraint") /\ HasPrefix(args.constraintStr, <<"=">>)
        /\ ParseVersion(Tail(args.constraintStr)).err = NoError) =>
        LET V == Tail(args.constraintStr) IN
        /\ ret.err = NoError
        /\ ret.constraint = ParseConstraint(V).constraint
        /\ ret.constraint = [Operator |-> OpEqual, Version |-> ParseVersion(V).version]

\* C13: for every operator token T of >=, <=, >, <, ~, ^, != and every valid
\* version string V, ParseConstraint(T + V) succeeds with the operator T
\* denotes and a version comparing equal to ParseVersion(V); a bare V yields
\* OpEqual.
C13_OperatorTokens ==
    Done("ParseConstraint") =>
        LET str == args.constraintStr IN
        /\ \A T \in Tokens :
              (HasPrefix(str, T) /\ ParseVersion(Rest(str, T)).err = NoError) =>
                  /\ ret.err = NoError
                  /\ ret.constraint.Operator = OperatorOf(T)
                  /\ Compare(ret.constraint.Version, ParseVersion(Rest(str, T)).version) = 0
        /\ ParseVersion(str).err = NoError =>
              /\ ret.err = NoError
              /\ ret.constraint.Operator = OpEqual
              /\ Compare(ret.constraint.Version, ParseVersion(str).version) = 0

\* ">=1.1" was parsed as the operator >= with the bound 1.1.0
C13_Witness ==
    /\ Done("ParseConstraint")
    /\ args.constraintStr = <<">", "=", "1", ".", "1">>
    /\ ret.err = NoError
    /\ ret.constraint = [Operator |-> OpGreaterEqual, Version |-> Release(1, 1, 0)]

\* C14: a constraint string that starts with a prefix that is no recognized
\* operator ("=>" before a valid version) fails with the unknown-operator
\* error, whose message carries the unrecognized token.
C14_UnknownOperator ==
    (Done("ParseConstraint") /\ HasPrefix(args.constraintStr, <<"=", ">">>)
        /\ ParseVersion(Rest(args.constraintStr, <<"=", ">">>)).err = NoError) =>
        ret.err = <<"unknown operator: ", "=", ">">>

\* the operator token ParseConstraint is to recognize at the head of s: the
\* longest one that leaves a remainder, or none
LongestToken(s) ==
    LET fits == {T \in Tokens : HasPrefix(s, T) /\ Len(s) > Len(T)} IN
    IF fits = {} THEN <<>>
    ELSE CHOOSE T \in fits : \A U \in fits : Len(U) <= Len(T)

C16_EmptyInputErrorsDistinct ==
    (Done("ParseConstraints") /\ args.constraintStr = <<>>) =>
        /\ ret.err # NoError
        /\ ParseVersion(<<>>).err # ParseConstraint(<<>>).err
        /\ ret.err # ParseVersion(<<>>).err
        /\ ret.err # ParseConstraint(<<>>).err

\* the tokens of s: its maximal runs of characters that are not white space,
\* in input order
TokenStarts(s) ==
    {i \in 1..Len(s) : s[i] \notin WhiteSpace /\ (i = 1 \/ s[i - 1] \in WhiteSpace)}

TokenAt(s, i) ==
    LET e == CHOOSE j \in i..Len(s) :
                 /\ \A k \in i..j : s[k] \notin WhiteSpace
                 /\ (j = Len(s) \/ s[j + 1] \in WhiteSpace)
    IN  SubSeq(s, i, e)

\* C17: ParseConstraints splits the input on runs of white space; if a token
\* fails ParseConstraint it returns no list and the error of the first failing
\* token in input order; if every token parses it returns one constraint per
\* token in input order.
C17_AllOrNothing ==
    (Done("ParseConstraints") /\ args.constraintStr # <<>>) =>
        LET str == args.constraintStr
            starts == TokenStarts(str)
            failing == {i \in starts : ParseConstraint(TokenAt(str, i)).err # NoError}
        IN  IF failing # {}
            THEN LET first == CHOOSE i \in failing : \A j \in failing : i <= j IN
                 /\ ret.constraints = <<>>
                 /\ ret.err = <<"failed to parse constraint '">> \o TokenAt(str, first)
                              \o <<"': ">> \o ParseConstraint(TokenAt(str, first)).err
            ELSE /\ ret.err = NoError
                 /\ Len(ret.constraints) = Cardinality(starts)
                 /\ \A i \in starts :
                       ret.constraints[Cardinality({j \in starts : j <= i})]
                           = ParseConstraint(TokenAt(str, i)).constraint

\* of two tokens the first parsed and the second did not
C17_Witness ==
    /\ Done("ParseConstraints")
    /\ args.constraintStr = <<">", "1", " ", "a">>
    /\ ret.constraints = <<>>
    /\ ret.err = <<"failed to parse constraint '", "a", "': ",
                   "invalid version in constraint: ", "invalid version format: ", "a">>

\* C18: for every parsed version v, ParseVersion(v.String()) succeeds and
\* returns a version that compares equal to v.
C18_VersionRoundTrip ==
    Done("Version.String") =>
        /\ ParseVersion(ret).err = NoError
        /\ Compare(ParseVersion(ret).version, args.v) = 0

\* a version with a prerelease and build metadata was rendered
C18_Witness ==
    /\ Done("Version.String")
    /\ args.v.Prerelease = <<"a", "b">> /\ args.v.Build = <<"x">>
    /\ args.v.Major = 1 /\ args.v.Minor = 0 /\ args.v.Patch = 1
    /\ ret = <<"1", ".", "0", ".", "1", "-", "a", "b", "+", "x">>

\* C19: c.String() is the canonical token of the operator (nothing for =)
\* followed by the version string, and ParseConstraint(c.String()) succeeds
\* with the same operator and a version comparing equal to c.Version.
C19_ConstraintRoundTrip ==
    Done("Constraint.String") =>
        LET c == args.c
            token == IF c.Operator = OpEqual THEN <<>>
                     ELSE CHOOSE T \in Tokens : OperatorOf(T) = c.Operator
        IN  /\ ret = token \o VersionString(c.Version)
            /\ ParseConstraint(ret).err = NoError
            /\ ParseConstraint(ret).constraint.Operator = c.Operator
            /\ Compare(ParseConstraint(ret).constraint.Version, c.Version) = 0

\* an = constraint was rendered as the bare version, and a != constraint
\* with its token
C19_Witness ==
    /\ Done("Constraint.String")
    /\ args.c.Version = Release(1, 1, 0)
    /\ \/ args.c.Operator = OpEqual /\ ret = <<"1", ".", "1", ".", "0">>
       \/ args.c.Operator = OpNotEqual /\ ret = <<"!", "=", "1", ".", "1", ".", "0">>

(***************************************************************************)
(* Properties of concurrent callers.                                       *)
(***************************************************************************)
\* the result of a call made alone
Alone(f, a) ==
    CASE f = "ParseVersion" -> ParseVersion(a.versionStr)
      [] f = "ParseConstraint" -> ParseConstraint(a.constraintStr)
      [] f = "Compare" -> Compare(a.v, a.other)
      [] f = "IsSatisfiedBy" -> IsSatisfiedBy(a.c, a.version)
      [] f = "SatisfiesAll" -> SatisfiesAll(a.version, a.constraints)

\* the local of a call in flight is the one that call assigned
OwnLocal(f, a, local) ==
    CASE f = "ParseVersion" -> local = versionRegex(a.versionStr)
      [] f = "ParseConstraint" -> local = constraintRegex(a.constraintStr)
      [] f = "IsSatisfiedBy" -> local = Compare(a.version, a.c.Version)
      [] f = "SatisfiesAll" ->
            /\ local \in 1..(Len(a.constraints) + 1)
            /\ \A i \in 1..(local - 1) : IsSatisfiedBy(a.constraints[i], a.version)

\* C20: under every interleaving of the calls of several concurrent callers
\* each call returns the result it returns when made alone, and no call
\* writes the state another call reads: the locals of a call in flight are
\* the ones that call assigned.
C20_CallsDoNotInterfere ==
    \A self \in Callers :
        /\ pc[self] = "done" => ret[self] = Alone(fn[self], args[self])
        /\ pc[self] = "mid" => OwnLocal(fn[self], args[self], frames[FrameOf(self)])

\* two ParseVersion calls on different strings are in flight at once, each
\* with its own matches
C20_Witness ==
    /\ pc[1] = "mid" /\ fn[1] = "ParseVersion" /\ args[1].versionStr = Str11
    /\ pc[2] = "mid" /\ fn[2] = "ParseVersion" /\ args[2].versionStr = StrPre
    /\ frames[FrameOf(1)] = versionRegex(Str11)
    /\ frames[FrameOf(2)] = versionRegex(StrPre)

(***************************************************************************)
(* Properties of the parsed constraint list and of the range operators.    *)
(***************************************************************************)
\* C28: ParseConstraints never succeeds with an empty constraint list: for
\* every input string, strings made only of whitespace included, a
\* successful result holds at least one constraint.
C28_NeverEmptyList ==
    (Done("ParseConstraints") /\ ret.err = NoError) => Len(ret.constraints) >= 1

C21_ExitCode ==
    Done("runDoctorCommand") =>
        /\ ret.exit = 0 <=>
              \A i \in 1..Len(ret.report.Items) : ret.report.Items[i].Status = StatusOK
        /\ (\E i \in 1..Len(args.envs) : args.envs[i].lookup # "found") => ret.exit = 1

\* the command of the tool was found and a version was extracted from its output
VersionDetected(tool, env) ==
    /\ getToolPath(env).available /\ getToolPath(env).err = NoError
    /\ extractVersion(tool, env).err = NoError

\* C22: when the command of a tool is found, a version is extracted from its
\* output and that version does not satisfy the required constraint, the
\* result of CheckTool has status Outdated.
C22_OutdatedStatus ==
    (/\ Done("CheckTool")
     /\ VersionDetected(args.tool, args.env)
     /\ ParseVersion(extractVersion(args.tool, args.env).version).err = NoError
     /\ ParseConstraint(args.tool.RequiredVersion).err = NoError
     /\ ~IsSatisfiedBy(ParseConstraint(args.tool.RequiredVersion).constraint,
                       ParseVersion(extractVersion(args.tool, args.env).version).version))
        => ret.Status = StatusOutdated

\* the version string satisfies every token of the requirement string
SatisfiesRequirement(actualVersion, requiredVersion) ==
    /\ ParseVersion(actualVersion).err = NoError
    /\ ParseConstraints(requiredVersion).err = NoError
    /\ SatisfiesAll(ParseVersion(actualVersion).version,
                    ParseConstraints(requiredVersion).constraints)

\* C23: a requirement string of several whitespace-separated constraint
\* tokens that manifest validation accepts is evaluated as a conjunction:
\* validateVersion succeeds exactly when the detected version satisfies every
\* token, and CheckTool reports OK for a detected version inside the range.
C23_RequirementIsConjunction ==
    /\ (/\ Done("validateVersion")
        /\ ValidateVersionConstraint(args.requiredVersion) = NoError
        /\ ParseVersion(args.actualVersion).err = NoError)
          => (ret = NoError <=>
                 SatisfiesRequirement(args.actualVersion, args.requiredVersion))
    /\ (/\ Done("CheckTool")
        /\ ValidateVersionConstraint(args.tool.RequiredVersion) = NoError
        /\ VersionDetected(args.tool, args.env)
        /\ SatisfiesRequirement(extractVersion(args.tool, args.env).version,
                                args.tool.RequiredVersion))
          => ret.Status = StatusOK

\* C26: the summary of every report is consistent: Total is the number of
\* items and OK + Missing + Outdated + Errors is Total.
C26_SummaryConsistent ==
    Done("runDoctorCommand") =>
        /\ ret.report.Summary.Total = Len(ret.report.Items)
        /\ ret.report.Summary.OK + ret.report.Summary.Missing
              + ret.report.Summary.Outdated + ret.report.Summary.Errors
           = ret.report.Summary.Total

\* C27: DetermineStatus sets the status by fixed precedence whatever the
\* status was: a non-empty ErrorMessage gives Error, otherwise an empty
\* ActualVersion gives NotFound, otherwise OK; AddError leaves the status at
\* Error.
C27_StatusPrecedence ==
    /\ Done("DetermineStatus") =>
          /\ args.cr.ErrorMessage # <<>> => ret.Status = StatusError
          /\ (args.cr.ErrorMessage = <<>> /\ args.cr.ActualVersion = <<>>)
                => ret.Status = StatusNotFound
          /\ (args.cr.ErrorMessage = <<>> /\ args.cr.ActualVersion # <<>>)
                => ret.Status = StatusOK
    /\ Done("AddError") => ret.Status = StatusError

\* a result that was OK and has a version, but carries an error message too,
\* was set to Error
C27_Witness ==
    /\ Done("DetermineStatus")
    /\ args.cr.Status = StatusOK /\ args.cr.ActualVersion # <<>>
    /\ args.cr.ErrorMessage # <<>>
    /\ ret.Status = StatusError

\* C30: every result of CheckTool is status-consistent: OK and Outdated have
\* an ActualVersion, NotFound and Missing have none, Error has an
\* ErrorMessage, and the status is never Unknown.
C30_StatusConsistent ==
    Done("CheckTool") =>
        /\ ret.Status = StatusOK => ret.ActualVersion # <<>>
        /\ ret.Status \in {StatusNotFound, StatusMissing} => ret.ActualVersion = <<>>
        /\ ret.Status = StatusOutdated => ret.ActualVersion # <<>>
        /\ ret.Status = StatusError => ret.ErrorMessage # <<>>
        /\ ret.Status # StatusUnknown

\* the three outcomes of a check: a tool whose version command failed is
\* reported as Error with the message of the failure
C30_Witness ==
    /\ Done("CheckTool")
    /\ args.env.lookup = "found" /\ args.env.run = "failed"
    /\ ret.Status = StatusError /\ ret.ActualVersion = <<>>
    /\ ret.ErrorMessage = <<"failed to run version command: ", "command failed: ",
                            "exit status 1">>

(***************************************************************************)
(* Properties of the manifest.                                             *)
(***************************************************************************)
\* C24: every string ValidateVersionConstraint accepts is parsed without
\* error by ParseConstraints, and "", a requirement with a non-numeric
\* component and a requirement with the prefix => are rejected.
C24_AcceptedIsParseable ==
    Done("ValidateVersionConstraint") =>
        /\ ret = NoError => ParseConstraints(args.RequiredVersion).err = NoError
        /\ args.RequiredVersion \in {<<>>, <<">", "=", "1", ".", "x">>, <<"=", ">", "1">>}
              => ret # NoError

NoDuplicateIDs(tools) ==
    \A i, j \in 1..Len(tools) : tools[i].ID = tools[j].ID => i = j

\* C25: Merge gives the other manifest precedence per tool ID: for manifests
\* without duplicate IDs the result holds exactly one tool for each ID of
\* the two tool lists, the definition of other when other defines the ID and
\* that of the base otherwise.
C25_MergePrecedence ==
    (Done("Merge") /\ NoDuplicateIDs(args.m.Tools) /\ NoDuplicateIDs(args.other.Tools)) =>
        /\ NoDuplicateIDs(ret.Tools)
        /\ ToolIDs(ret.Tools) = ToolIDs(args.m.Tools) \cup ToolIDs(args.other.Tools)
        /\ \A i \in 1..Len(ret.Tools) :
              IF ret.Tools[i].ID \in ToolIDs(args.other.Tools)
              THEN \E j \in 1..Len(args.other.Tools) : args.other.Tools[j] = ret.Tools[i]
              ELSE \E j \in 1..Len(args.m.Tools) : args.m.Tools[j] = ret.Tools[i]

\* both manifests define go, with different requirements, and only the base
\* defines git: the result has the go of other and the git of the base
C25_Witness ==
    /\ Done("Merge")
    /\ args.m.Tools = <<Tool("go", <<"1">>), Tool("git", <<"1">>)>>
    /\ args.other.Tools = <<Tool("go", <<"2">>)>>
    /\ ret.Tools = <<Tool("go", <<"2">>), Tool("git", <<"1">>)>>

====
